---- MODULE Spec2Model ----
(***************************************************************************)
(* A model of the health-monitoring dashboard page (app.py): the query     *)
(* catalog CONFIG, the role filter, parameter binding for the Postgres and *)
(* the Mongo panel, the two st.cache_data executors, and render_chart.     *)
(*                                                                         *)
(* Streamlit re-executes the whole script on every operator interaction;   *)
(* one such execution is a "run".  A run is modelled as four steps: Rerun  *)
(* (the module level code), Sidebar, PgPanel and MongoPanel.               *)
(***************************************************************************)
EXTENDS Integers, Sequences, FiniteSets, TLC

VARIABLES
    now,          \* wall clock, in seconds
    runs,         \* number of script runs started so far
    pc,           \* position of the script: "idle", "sidebar", "pg", "mongo"
    side,         \* values of the module level code and of the sidebar widgets
    pgp,          \* the Postgres panel of this run: its locals and what it showed
    mgp,          \* the Mongo panel of this run: its locals and what it showed
    net,          \* requests sent to the backends in this run, in order
    cache_pg,     \* st.cache_data entries of run_pg_query
    cache_mongo,  \* st.cache_data entries of run_mongo_aggregate
    unit          \* the last direct call of a function of the module, and its result

vars == <<now, runs, pc, side, pgp, mgp, net, cache_pg, cache_mongo, unit>>

-----------------------------------------------------------------------------
(* Bounds of the model.                                                     *)

\* script runs in one session
MaxRuns == 2
\* definitions in a catalog handed to the role filter in a direct call
MaxDefs == 2
\* direct calls of the cached executors in one session
MaxCalls == 3

-----------------------------------------------------------------------------
(* Python values.  A string is a sequence of text atoms, so that str(),    *)
(* str.replace() and eval() can be computed on it.                          *)

\* a piece of text without quote, placeholder or digits of interest
Txt(x) == [a |-> "txt", v |-> x, n |-> 0]
\* the text ":<name>", a placeholder token
Ph(name) == [a |-> "ph", v |-> name, n |-> 0]
\* the decimal digits of the integer n
Num(i) == [a |-> "num", v |-> "", n |-> i]
\* the quote character that delimits a string literal in repr()
Quote == [a |-> "quote", v |-> "'", n |-> 0]
\* the text "datetime.datetime(...)" that repr() gives for the instant t
DtCall(t) == [a |-> "dtcall", v |-> "datetime.datetime", n |-> t]

PyStr(s) == [t |-> "str", s |-> s, n |-> 0]
PyInt(i) == [t |-> "int", s |-> <<>>, n |-> i]
PyDate(i) == [t |-> "datetime", s |-> <<>>, n |-> i]
\* any other literal (True, a number, a nested operator document), kept as its text
PyLit(x) == [t |-> "lit", s |-> <<Txt(x)>>, n |-> 0]

Range(f) == {f[i] : i \in DOMAIN f}

-----------------------------------------------------------------------------
(* The Postgres catalog, CONFIG["postgres"]["queries"], in dict order.      *)
(* A statement is a sequence of tokens: text, the schema token "{S}." and   *)
(* named placeholders ":name".  "keys" are the keys the dict literal has.   *)

PG_SCHEMA == "public"

T(x) == [k |-> "txt", v |-> x]
S == [k |-> "schema", v |-> "{S}."]
P(name) == [k |-> "ph", v |-> name]

Chart(type, map) == [keys |-> {"type"} \cup DOMAIN map, type |-> type, map |-> map]
NoMap == [x \in {} |-> ""]
TableChart == Chart("table", NoMap)
XY(x, y) == [k \in {"x", "y"} |-> IF k = "x" THEN x ELSE y]
NamesValues(nm, vl) == [k \in {"names", "values"} |-> IF k = "names" THEN nm ELSE vl]

PgDef(name, sql, chart, tags, params) ==
    [name |-> name, keys |-> {"sql", "chart", "tags", "params"}, sql |-> sql,
     chart |-> chart, tags |-> tags, params |-> params]
\* a definition whose dict literal has no "params" key
PgDefNoParams(name, sql, chart, tags) ==
    [name |-> name, keys |-> {"sql", "chart", "tags"}, sql |-> sql,
     chart |-> chart, tags |-> tags, params |-> <<>>]

PG_QUERIES == <<
    PgDef("patient: my health data overview (table)",
          <<T("SELECT hr.timestamp, hr.heartrate, hr.bloodpressure, hr.spo2, hr.stepcount, wd.devicetype FROM"),
            S, T("healthrecord hr JOIN"), S,
            T("wearabledevice wd ON hr.deviceid = wd.deviceid WHERE wd.assignedpatientid ="),
            P("patient_id"), T("ORDER BY hr.timestamp DESC LIMIT 20;")>>,
          TableChart, <<"patient">>, <<"patient_id">>),
    PgDef("patient: my alert status (table)",
          <<T("SELECT a.alerttype, a.timestamp, a.alertstatus, a.location, c.name AS caregiver_name FROM"),
            S, T("alert a JOIN"), S, T("healthrecord hr ON a.recordid = hr.recordid JOIN"), S,
            T("wearabledevice wd ON hr.deviceid = wd.deviceid LEFT JOIN"), S,
            T("caregiver c ON a.recipientcaregiverid = c.caregiverid WHERE wd.assignedpatientid ="),
            P("patient_id"), T("ORDER BY a.timestamp DESC;")>>,
          TableChart, <<"patient">>, <<"patient_id">>),
    PgDef("patient: my device battery status (pie)",
          <<T("SELECT CASE WHEN batterylevel >= 80 THEN '80-100%' ... END AS battery_range, COUNT(*) AS device_count FROM"),
            S, T("wearabledevice WHERE assignedpatientid ="), P("patient_id"),
            T("AND isactive = true GROUP BY battery_range ORDER BY battery_range;")>>,
          Chart("pie", NamesValues("battery_range", "device_count")),
          <<"patient">>, <<"patient_id">>),
    PgDef("caregiver: alerts to respond to (table)",
          <<T("SELECT p.name AS patient_name, a.alerttype, a.timestamp, a.location, a.alertstatus FROM"),
            S, T("alert a JOIN"), S, T("healthrecord hr ON a.recordid = hr.recordid JOIN"), S,
            T("wearabledevice wd ON hr.deviceid = wd.deviceid JOIN"), S,
            T("patient p ON wd.assignedpatientid = p.patientid WHERE a.recipientcaregiverid ="),
            P("caregiver_id"), T("AND a.alertstatus = 'Unread' ORDER BY a.timestamp DESC;")>>,
          TableChart, <<"caregiver">>, <<"caregiver_id">>),
    PgDef("caregiver: activity of my patients (bar)",
          <<T("SELECT p.name AS patient_name, AVG(hr.stepcount)::numeric(10,1) AS avg_steps FROM"),
            S, T("patient p JOIN"), S, T("patientcaregiverjunction pcj ON p.patientid = pcj.patientid JOIN"), S,
            T("wearabledevice wd ON p.patientid = wd.assignedpatientid JOIN"), S,
            T("healthrecord hr ON wd.deviceid = hr.deviceid WHERE pcj.caregiverid ="),
            P("caregiver_id"),
            T("AND hr.timestamp >= CURRENT_DATE - INTERVAL '7 days' GROUP BY p.name ORDER BY avg_steps DESC;")>>,
          Chart("bar", XY("patient_name", "avg_steps")),
          <<"caregiver">>, <<"caregiver_id">>),
    PgDef("caregiver: today's alert responses (table)",
          <<T("SELECT COUNT(*) AS total_alerts, COUNT(CASE ...) AS responded_alerts, COUNT(CASE ...) AS unread_alerts FROM"),
            S, T("alert a WHERE a.recipientcaregiverid ="), P("caregiver_id"),
            T("AND a.timestamp::date = CURRENT_DATE;")>>,
          TableChart, <<"caregiver">>, <<"caregiver_id">>),
    PgDef("medical staff: abnormal health report (table)",
          <<T("SELECT p.name AS patient_name, hr.heartrate, hr.bloodpressure, hr.spo2, hr.timestamp, ht.metrictype, ht.minvalue, ht.maxvalue FROM"),
            S, T("healthrecord hr JOIN"), S, T("wearabledevice wd ON hr.deviceid = wd.deviceid JOIN"), S,
            T("patient p ON wd.assignedpatientid = p.patientid JOIN"), S,
            T("healththreshold ht ON p.patientid = ht.patientid WHERE ht.staffid ="),
            P("staff_id"), T("AND ( ... NOT BETWEEN ht.minvalue AND ht.maxvalue ... ) ORDER BY hr.timestamp DESC;")>>,
          TableChart, <<"medical_staff">>, <<"staff_id">>),
    PgDef("medical staff: patient health thresholds (table)",
          <<T("SELECT p.name AS patient_name, ht.metrictype, ht.minvalue, ht.maxvalue FROM"),
            S, T("healththreshold ht JOIN"), S, T("patient p ON ht.patientid = p.patientid WHERE ht.staffid ="),
            P("staff_id"), T("ORDER BY p.name, ht.metrictype;")>>,
          TableChart, <<"medical_staff">>, <<"staff_id">>),
    PgDef("medical staff: high risk patients (bar)",
          <<T("SELECT p.name AS patient_name, COUNT(a.alertid) AS alert_count FROM"),
            S, T("patient p JOIN"), S, T("wearabledevice wd ON p.patientid = wd.assignedpatientid JOIN"), S,
            T("healthrecord hr ON wd.deviceid = hr.deviceid JOIN"), S,
            T("alert a ON hr.recordid = a.recordid WHERE a.timestamp >= CURRENT_DATE - INTERVAL '30 days' GROUP BY p.name HAVING COUNT(a.alertid) >"),
            P("alert_threshold"), T("ORDER BY alert_count DESC;")>>,
          Chart("bar", XY("patient_name", "alert_count")),
          <<"medical_staff">>, <<"staff_id", "alert_threshold">>),
    PgDefNoParams("admin: device management overview (table)",
          <<T("SELECT wd.deviceid, wd.devicetype, wd.batterylevel, wd.isactive, p.name AS patient_name, wd.lastsynctime FROM"),
            S, T("wearabledevice wd LEFT JOIN"), S,
            T("patient p ON wd.assignedpatientid = p.patientid ORDER BY wd.deviceid;")>>,
          TableChart, <<"admin">>),
    PgDefNoParams("admin: device battery distribution (pie)",
          <<T("SELECT CASE WHEN batterylevel >= 80 THEN '80-100%' ... END AS battery_range, COUNT(*) AS device_count FROM"),
            S, T("wearabledevice WHERE isactive = true GROUP BY battery_range ORDER BY battery_range;")>>,
          Chart("pie", NamesValues("battery_range", "device_count")), <<"admin">>),
    PgDefNoParams("admin: alert type statistics (bar)",
          <<T("SELECT alerttype, COUNT(*) AS alert_count FROM"),
            S, T("alert WHERE timestamp >= CURRENT_DATE - INTERVAL '7 days' GROUP BY alerttype ORDER BY alert_count DESC;")>>,
          Chart("bar", XY("alerttype", "alert_count")), <<"admin">>),
    PgDefNoParams("admin: patient count and average age (table)",
          <<T("SELECT COUNT(*) AS total_patients, AVG(age)::numeric(10,1) AS avg_age, COUNT(CASE WHEN age >= 80 THEN 1 END) AS elderly_patients FROM"),
            S, T("patient;")>>,
          TableChart, <<"admin">>),
    PgDefNoParams("admin: caregiver workload (bar)",
          <<T("SELECT c.name AS caregiver_name, COUNT(pcj.patientid) AS patient_count FROM"),
            S, T("caregiver c LEFT JOIN"), S,
            T("patientcaregiverjunction pcj ON c.caregiverid = pcj.caregiverid GROUP BY c.name ORDER BY patient_count DESC;")>>,
          Chart("bar", XY("caregiver_name", "patient_count")), <<"admin">>)
>>

-----------------------------------------------------------------------------
(* The Mongo catalog, CONFIG["mongo"]["queries"], in dict order.  The dict  *)
(* literal is evaluated by every run of the script, so the time windows of   *)
(* its pipelines are computed from dt.datetime.utcnow() of that run.  A      *)
(* pipeline is a list of stage documents; a stage is kept as its operator    *)
(* and the leaves of its body, each a path and a Python value.               *)

HOUR == 3600
DAY == 86400

E(path, val) == [path |-> path, val |-> val]
Stage(op, body) == [t |-> "dict", op |-> op, body |-> body]
Field(name) == PyStr(<<Txt(name)>>)

MongoDef(name, coll, aggregate, chart, tags) ==
    [name |-> name, keys |-> {"collection", "aggregate", "chart", "tags"},
     collection |-> coll, aggregate |-> aggregate, chart |-> chart, tags |-> tags]

MONGO_NAMES == <<
    "sensors: patient heart rate trend (last 24 hours)",
    "sensors: low SpO2 detection (last 7 days)",
    "sensors: blood pressure distribution",
    "devices: latest device status (table)",
    "devices: battery level distribution",
    "devices: low battery alerts",
    "alerts: recent alert statistics (table)",
    "alerts: severity distribution",
    "alerts: patient alert frequency ranking",
    "audit: user operation log (last 24 hours)",
    "audit: operation type distribution",
    "audit: user activity trend (last 7 days)">>

\* the definition CONFIG holds under a name, built at the instant utcnow
MongoQuery(name, utcnow) ==
    CASE name = "sensors: patient heart rate trend (last 24 hours)" ->
        MongoDef(name, "sensor_readings",
            <<Stage("$match", <<E("patient_id", PyStr(<<Ph("patient_id")>>)),
                                E("timestamp.$gte", PyDate(utcnow - 24 * HOUR)),
                                E("heart_rate.$exists", PyLit("True"))>>),
              Stage("$project", <<E("hour.$dateTrunc.date", Field("$timestamp")),
                                  E("hour.$dateTrunc.unit", Field("hour")),
                                  E("heart_rate", PyInt(1))>>),
              Stage("$group", <<E("_id", Field("$hour")),
                                E("avg_heart_rate.$avg", Field("$heart_rate")),
                                E("count.$count", PyLit("{}"))>>),
              Stage("$sort", <<E("_id", PyInt(1))>>)>>,
            Chart("line", XY("_id", "avg_heart_rate")), <<"patient", "medical_staff">>)
      [] name = "sensors: low SpO2 detection (last 7 days)" ->
        MongoDef(name, "sensor_readings",
            <<Stage("$match", <<E("timestamp.$gte", PyDate(utcnow - 7 * DAY)),
                                E("spo2.$lt", PyInt(92))>>),
              Stage("$group", <<E("_id", Field("$patient_id")),
                                E("low_spo2_count.$count", PyLit("{}"))>>),
              Stage("$sort", <<E("low_spo2_count", PyInt(-1))>>)>>,
            Chart("bar", XY("_id", "low_spo2_count")), <<"medical_staff", "admin">>)
      [] name = "sensors: blood pressure distribution" ->
        MongoDef(name, "sensor_readings",
            <<Stage("$match", <<E("blood_pressure.$exists", PyLit("True")),
                                E("timestamp.$gte", PyDate(utcnow - 30 * DAY))>>),
              Stage("$addFields", <<E("systolic.$toInt.$arrayElemAt",
                                      PyLit("[{'$split': ['$blood_pressure', '/']}, 0]"))>>),
              Stage("$bucket", <<E("groupBy", Field("$systolic")),
                                 E("boundaries", PyLit("[0, 90, 120, 140, 160, 200]")),
                                 E("default", Field("200+")),
                                 E("output.count.$sum", PyInt(1))>>)>>,
            Chart("pie", NamesValues("_id", "count")), <<"medical_staff", "admin">>)
      [] name = "devices: latest device status (table)" ->
        MongoDef(name, "device_status",
            <<Stage("$sort", <<E("timestamp", PyInt(-1))>>),
              Stage("$group", <<E("_id", Field("$sensor_id")),
                                E("latest_status.$first", Field("$$ROOT"))>>),
              Stage("$replaceRoot", <<E("newRoot", Field("$latest_status"))>>),
              Stage("$project", <<E("_id", PyInt(0)), E("sensor_id", PyInt(1)),
                                  E("patient_id", PyInt(1)), E("timestamp", PyInt(1)),
                                  E("battery_level", PyInt(1)), E("is_active", PyInt(1))>>)>>,
            TableChart, <<"admin", "caregiver">>)
      [] name = "devices: battery level distribution" ->
        MongoDef(name, "device_status",
            <<Stage("$project", <<E("battery_level.$ifNull", PyLit("['$battery_level', 0]")),
                                  E("battery_range.$switch.branches",
                                    PyLit("[{'case': {'$gte': ['$battery_level', 80]}, 'then': '80-100%'}, ...]")),
                                  E("battery_range.$switch.default", Field("<20%"))>>),
              Stage("$group", <<E("_id", Field("$battery_range")),
                                E("count.$count", PyLit("{}"))>>),
              Stage("$sort", <<E("count", PyInt(-1))>>)>>,
            Chart("pie", NamesValues("_id", "count")), <<"admin", "caregiver">>)
      [] name = "devices: low battery alerts" ->
        MongoDef(name, "device_status",
            <<Stage("$match", <<E("battery_level.$lt", PyInt(20)),
                                E("is_active", PyLit("True"))>>),
              Stage("$group", <<E("_id", Field("$sensor_id")),
                                E("low_battery_count.$count", PyLit("{}"))>>),
              Stage("$sort", <<E("low_battery_count", PyInt(-1))>>)>>,
            Chart("bar", XY("_id", "low_battery_count")), <<"admin">>)
      [] name = "alerts: recent alert statistics (table)" ->
        MongoDef(name, "alerts",
            <<Stage("$match", <<E("timestamp.$gte", PyDate(utcnow - 7 * DAY))>>),
              Stage("$group", <<E("_id", Field("$alert_type")),
                                E("count.$count", PyLit("{}")),
                                E("latest_timestamp.$max", Field("$timestamp"))>>),
              Stage("$sort", <<E("count", PyInt(-1))>>)>>,
            TableChart, <<"admin", "caregiver", "medical_staff">>)
      [] name = "alerts: severity distribution" ->
        MongoDef(name, "alerts",
            <<Stage("$match", <<E("timestamp.$gte", PyDate(utcnow - 30 * DAY))>>),
              Stage("$group", <<E("_id", Field("$severity")),
                                E("count.$count", PyLit("{}"))>>),
              Stage("$sort", <<E("count", PyInt(-1))>>)>>,
            Chart("pie", NamesValues("_id", "count")), <<"admin", "medical_staff">>)
      [] name = "alerts: patient alert frequency ranking" ->
        MongoDef(name, "alerts",
            <<Stage("$match", <<E("timestamp.$gte", PyDate(utcnow - 30 * DAY))>>),
              Stage("$group", <<E("_id", Field("$patient_id")),
                                E("alert_count.$count", PyLit("{}"))>>),
              Stage("$sort", <<E("alert_count", PyInt(-1))>>),
              Stage("$limit", <<E("", PyInt(10))>>)>>,
            Chart("bar", XY("_id", "alert_count")), <<"admin", "medical_staff">>)
      [] name = "audit: user operation log (last 24 hours)" ->
        MongoDef(name, "audit_logs",
            <<Stage("$match", <<E("timestamp.$gte", PyDate(utcnow - 24 * HOUR))>>),
              Stage("$group", <<E("_id", Field("$action")),
                                E("count.$count", PyLit("{}")),
                                E("users.$addToSet", Field("$user_id"))>>),
              Stage("$project", <<E("action", Field("$_id")), E("count", PyInt(1)),
                                  E("unique_users.$size", Field("$users"))>>),
              Stage("$sort", <<E("count", PyInt(-1))>>)>>,
            TableChart, <<"admin">>)
      [] name = "audit: operation type distribution" ->
        MongoDef(name, "audit_logs",
            <<Stage("$match", <<E("timestamp.$gte", PyDate(utcnow - 7 * DAY))>>),
              Stage("$group", <<E("_id", Field("$action")),
                                E("count.$count", PyLit("{}"))>>),
              Stage("$sort", <<E("count", PyInt(-1))>>)>>,
            Chart("pie", NamesValues("_id", "count")), <<"admin">>)
      [] name = "audit: user activity trend (last 7 days)" ->
        MongoDef(name, "audit_logs",
            <<Stage("$match", <<E("timestamp.$gte", PyDate(utcnow - 7 * DAY))>>),
              Stage("$project", <<E("day.$dateTrunc.date", Field("$timestamp")),
                                  E("day.$dateTrunc.unit", Field("day")),
                                  E("user_id", PyInt(1))>>),
              Stage("$group", <<E("_id", Field("$day")),
                                E("unique_users.$addToSet", Field("$user_id")),
                                E("total_actions.$count", PyLit("{}"))>>),
              Stage("$project", <<E("day", Field("$_id")),
                                  E("unique_users_count.$size", Field("$unique_users")),
                                  E("total_actions", PyInt(1))>>),
              Stage("$sort", <<E("day", PyInt(1))>>)>>,
            Chart("line", XY("day", "total_actions")), <<"admin">>)

MONGO_QUERIES(utcnow) ==
    [i \in DOMAIN MONGO_NAMES |-> MongoQuery(MONGO_NAMES[i], utcnow)]

-----------------------------------------------------------------------------
(* Role filter (Postgres panel).                                            *)

\* str.lower() on the role and tag spellings the model uses
lower(s) ==
    CASE s \in {"Patient", "PATIENT"} -> "patient"
      [] s \in {"Admin", "ADMIN"} -> "admin"
      [] s \in {"All", "ALL"} -> "all"
      [] OTHER -> s

\* q.get("tags") or ["all"]: an absent key and an empty list both give ["all"]
TagsOrAll(q) ==
    IF "tags" \in q.keys /\ q.tags # <<>> THEN q.tags ELSE <<"all">>

\* the variant that forgets to lower-case the role
okCaseSensitive(q, role) ==
    LET t == [i \in DOMAIN TagsOrAll(q) |-> lower(TagsOrAll(q)[i])]
    IN  "all" \in Range(t) \/ role \in Range(t)

ok(q, role) ==
    LET t == [i \in DOMAIN TagsOrAll(q) |-> lower(TagsOrAll(q)[i])]
    IN  "all" \in Range(t) \/ lower(role) \in Range(t)

\* the dict comprehension keeps the order of qdict
filter_queries_by_role(qdict, role) ==
    SelectSeq(qdict, LAMBDA q : ok(q, role))

Names(qdict) == [i \in DOMAIN qdict |-> qdict[i].name]

\* qdict[name]
Lookup(qdict, name) == qdict[CHOOSE i \in DOMAIN qdict : qdict[i].name = name]

-----------------------------------------------------------------------------
(* Binding of a Postgres query and the request run_pg_query sends.          *)

qualify(sql) ==
    [i \in DOMAIN sql |-> IF sql[i] = S THEN [k |-> "qualified", v |-> PG_SCHEMA] ELSE sql[i]]

Placeholders(sql) == {sql[i].v : i \in {j \in DOMAIN sql : sql[j].k = "ph"}}

NoParams == [k \in {} |-> PyInt(0)]

Min(set) == CHOOSE x \in set : \A y \in set : x <= y

\* q.get("params", [])
wanted(q) == IF "params" \in q.keys THEN q.params ELSE <<>>

\* params = {k: PARAMS_CTX[k] for k in wanted}: the first absent key raises KeyError(k)
pg_params(q, ctx) ==
    LET w == wanted(q)
        miss == {i \in DOMAIN w : w[i] \notin DOMAIN ctx}
    IN  IF miss = {}
        THEN [exc |-> "", named |-> {}, params |-> [k \in Range(w) |-> ctx[k]]]
        ELSE [exc |-> "KeyError", named |-> {w[Min(miss)]}, params |-> NoParams]

\* the variant that formats the values into the statement text
read_sql_inline(uri, sql, params) ==
    [backend |-> "pg", op |-> "read_sql", conn |-> uri,
     stmt |-> [i \in DOMAIN sql |->
                 IF sql[i].k = "ph" /\ sql[i].v \in DOMAIN params
                 THEN [k |-> "value", v |-> sql[i].v] ELSE sql[i]],
     binds |-> NoParams]

\* pd.read_sql(text(sql), conn, params=params or {}): the statement and its bind variables
read_sql(uri, sql, params) ==
    [backend |-> "pg", op |-> "read_sql", conn |-> uri, stmt |-> sql, binds |-> params]

-----------------------------------------------------------------------------
(* Binding of a Mongo pipeline.                                              *)

\* the keys the Mongo panel looks for, in the order of its if statements
MONGO_KEYS == <<"patient_id", "caregiver_id", "staff_id", "device_id",
                "alert_threshold", "battery_threshold">>

\* x in list, for a list of stage documents: a stage never equals a string
InList(x, list) == \E i \in DOMAIN list : list[i].t = "str" /\ list[i] = PyStr(<<Txt(x)>>)

\* mongo_params of the panel
mongo_params(q, ctx) ==
    LET agg == IF "aggregate" \in q.keys THEN q.aggregate ELSE <<>>
        found == {k \in Range(MONGO_KEYS) : InList(k, agg)}
    IN  [k \in found |-> ctx[k]]

\* repr() of a leaf, as text (the strings of the catalog hold no quote)
repr(val) ==
    CASE val.t = "str" -> <<Quote>> \o val.s \o <<Quote>>
      [] val.t = "int" -> <<Num(val.n)>>
      [] val.t = "datetime" -> <<DtCall(val.n)>>
      [] OTHER -> val.s

\* str() of a parameter value
str(val) == IF val.t = "str" THEN val.s ELSE repr(val)

RECURSIVE replace(_, _, _)
\* text.replace(f":{key}", with)
replace(text, key, with) ==
    IF text = <<>> THEN <<>>
    ELSE (IF Head(text) = Ph(key) THEN with ELSE <<Head(text)>>)
         \o replace(Tail(text), key, with)

RECURSIVE replace_all(_, _, _)
\* for key, value in params.items(): stages_str = stages_str.replace(...)
replace_all(text, keys, params) ==
    IF keys = <<>> THEN text
    ELSE replace_all(IF Head(keys) \in DOMAIN params
                     THEN replace(text, Head(keys), str(params[Head(keys)]))
                     ELSE text,
                     Tail(keys), params)

IsStrLiteral(text) ==
    /\ Len(text) >= 2
    /\ text[1] = Quote
    /\ text[Len(text)] = Quote
    /\ \A i \in 2..(Len(text) - 1) : text[i] # Quote

\* eval() of the text of one leaf; the module binds the name dt, not datetime
eval(text) ==
    CASE IsStrLiteral(text) -> [exc |-> "", val |-> PyStr(SubSeq(text, 2, Len(text) - 1))]
      [] Len(text) = 1 /\ text[1].a = "num" -> [exc |-> "", val |-> PyInt(text[1].n)]
      [] Len(text) = 1 /\ text[1].a = "txt" -> [exc |-> "", val |-> PyLit(text[1].v)]
      [] Len(text) = 1 /\ text[1].a = "dtcall" -> [exc |-> "NameError", val |-> PyInt(0)]
      [] OTHER -> [exc |-> "SyntaxError", val |-> PyInt(0)]

Leaves(stages) ==
    UNION {{<<i, j>> : j \in DOMAIN stages[i].body} : i \in DOMAIN stages}

\* a leaf of the pipeline is a string that holds a placeholder token
HasPlaceholder(stages) ==
    \E p \in Leaves(stages) :
        LET val == stages[p[1]].body[p[2]].val
        IN  val.t = "str" /\ \E i \in DOMAIN val.s : val.s[i].a = "ph"

\* the substitution of run_mongo_aggregate
bind_stages(stages, params) ==
    IF DOMAIN params = {}
    THEN [exc |-> "", stages |-> stages]
    ELSE LET ev(val) == eval(replace_all(repr(val), MONGO_KEYS, params))
             bad(e) == {p \in Leaves(stages) : ev(stages[p[1]].body[p[2]].val).exc = e}
         IN  IF bad("SyntaxError") # {} THEN [exc |-> "SyntaxError", stages |-> <<>>]
             ELSE IF bad("NameError") # {} THEN [exc |-> "NameError", stages |-> <<>>]
             ELSE [exc |-> "",
                   stages |-> [i \in DOMAIN stages |->
                       [stages[i] EXCEPT !.body =
                           [j \in DOMAIN stages[i].body |->
                               [stages[i].body[j] EXCEPT !.val = ev(stages[i].body[j].val).val]]]]]

\* db[coll].aggregate(stages, allowDiskUse=True)
aggregate(uri, db_name, coll, stages) ==
    [backend |-> "mongo", op |-> "aggregate", conn |-> uri, db |-> db_name,
     coll |-> coll, stages |-> stages]

-----------------------------------------------------------------------------
(* Chart renderer.  A DataFrame is kept as its columns and its row count,   *)
(* with the version and the origin of the data it holds.                    *)

\* ver tells two states of the stored data apart, src is the database it was read from
DataFrame(cols, nrows, ver, src) == [cols |-> cols, nrows |-> nrows, ver |-> ver, src |-> src]

\* df.empty: no rows or no columns
empty(df) == df.nrows = 0 \/ df.cols = {}

\* the spec keys each chart kind subscripts, in evaluation order
Needed(ctype) ==
    CASE ctype \in {"line", "bar"} -> <<"x", "y">>
      [] ctype = "pie" -> <<"names", "values">>
      [] ctype = "heatmap" -> <<"rows", "cols", "values">>
      [] ctype = "treemap" -> <<"path", "values">>
      [] OTHER -> <<>>

\* the steps of render_chart after the df.empty test
render_nonempty(df, spec) ==
    LET ctype == IF "type" \in spec.keys THEN spec.type ELSE "table"
        need == Needed(ctype)
        nokey == {i \in DOMAIN need : need[i] \notin spec.keys}
    IN  IF need = <<>>
        THEN [shown |-> "dataframe", exc |-> "", reads |-> {"type"}]
        ELSE IF nokey # {}
        THEN [shown |-> "", exc |-> "KeyError",
              reads |-> {"type"} \cup {need[i] : i \in 1..Min(nokey)}]
        ELSE IF \E i \in DOMAIN need : spec.map[need[i]] \notin df.cols
        THEN [shown |-> "", exc |-> IF ctype = "heatmap" THEN "KeyError" ELSE "ValueError",
              reads |-> {"type"} \cup Range(need)]
        ELSE [shown |-> "plotly", exc |-> "", reads |-> {"type"} \cup Range(need)]

\* the variant that dispatches on the chart kind before looking at the rows
render_chart_no_guard(df, spec) == render_nonempty(df, spec)

render_chart(df, spec) ==
    IF empty(df)
    THEN [shown |-> "info", exc |-> "", reads |-> {}]
    ELSE render_nonempty(df, spec)

-----------------------------------------------------------------------------
(* The cached executors.  st.cache_data(ttl=60) keys an entry by the        *)
(* arguments whose name does not start with an underscore and keeps it for  *)
(* TTL seconds from the time it was computed; a call that raises stores     *)
(* nothing.  "answer" is what the backend does if it is asked; "who" is the *)
(* name of the catalog query, kept beside the entry for the properties.     *)

TTL == 60

Failure(kind) == [kind |-> kind, df |-> DataFrame({}, 0, 0, "")]
Rows(df) == [kind |-> "df", df |-> df]

Entry(key, at, val, who) == [key |-> key, at |-> at, val |-> val, who |-> who]
Fresh(cache, key, t) == {e \in cache : e.key = key /\ t - e.at < TTL}
Store(cache, e) == {x \in cache : x.key # e.key} \cup {e}
\* entries past their TTL are never returned again
Live(cache, t) == {e \in cache : t - e.at < TTL}

Returned(df, hit, sent, cache) ==
    [exc |-> "", df |-> <<df>>, hit |-> hit, sent |-> sent, cache |-> cache]
Raised(exc, sent, cache) ==
    [exc |-> exc, df |-> <<>>, hit |-> FALSE, sent |-> sent, cache |-> cache]

connect(uri) == [backend |-> "pg", op |-> "connect", conn |-> uri]

\* the variant whose entries never expire
run_pg_query_no_ttl(cache, t, uri, sql, params, answer, who) ==
    LET key == [sql |-> sql, params |-> params]
        hits == {e \in cache : e.key = key}
    IN  IF hits # {}
        THEN Returned((CHOOSE e \in hits : TRUE).val, TRUE, <<>>, cache)
        ELSE IF answer.kind = "connect_fails"
        THEN Raised("OperationalError", <<connect(uri)>>, cache)
        ELSE IF answer.kind = "query_fails"
        THEN Raised("ProgrammingError", <<connect(uri), read_sql(uri, sql, params)>>, cache)
        ELSE Returned(answer.df, FALSE, <<connect(uri), read_sql(uri, sql, params)>>,
                      Store(cache, Entry(key, t, answer.df, who)))

run_pg_query(cache, t, uri, sql, params, answer, who) ==
    LET key == [sql |-> sql, params |-> params]
        hits == Fresh(cache, key, t)
    IN  IF hits # {}
        THEN Returned((CHOOSE e \in hits : TRUE).val, TRUE, <<>>, cache)
        ELSE IF answer.kind = "connect_fails"
        THEN Raised("OperationalError", <<connect(uri)>>, cache)
        ELSE IF answer.kind = "query_fails"
        THEN Raised("ProgrammingError", <<connect(uri), read_sql(uri, sql, params)>>, cache)
        ELSE Returned(answer.df, FALSE, <<connect(uri), read_sql(uri, sql, params)>>,
                      Store(cache, Entry(key, t, answer.df, who)))

run_mongo_aggregate(cache, t, uri, db_name, coll, stages, params, answer, who) ==
    LET key == [db_name |-> db_name, coll |-> coll, stages |-> stages, params |-> params]
        hits == Fresh(cache, key, t)
        b == bind_stages(stages, params)
        req == aggregate(uri, db_name, coll, b.stages)
    IN  IF hits # {}
        THEN Returned((CHOOSE e \in hits : TRUE).val, TRUE, <<>>, cache)
        ELSE IF b.exc # ""
        THEN Raised(b.exc, <<>>, cache)
        ELSE IF answer.kind # "df"
        THEN Raised("PyMongoError", <<req>>, cache)
        ELSE Returned(answer.df, FALSE, <<req>>, Store(cache, Entry(key, t, answer.df, who)))

-----------------------------------------------------------------------------
(* The page.                                                                *)

ROLES == <<"patient", "caregiver", "medical_staff", "admin", "all">>

CtxKeys == {"patient_id", "caregiver_id", "staff_id", "device_id",
            "alert_threshold", "days", "battery_threshold"}

\* the widget defaults, with the patient id the operator entered
PARAMS_CTX(patient_id) ==
    [k \in CtxKeys |->
        PyInt(CASE k = "patient_id" -> patient_id
                [] k = "alert_threshold" -> 5
                [] k = "days" -> 7
                [] k = "battery_threshold" -> 20
                [] OTHER -> 1)]

PgUriA == "postgresql+psycopg2://a"
PgUriB == "postgresql+psycopg2://b"
MongoUriA == "mongodb://a"
MongoUriB == "mongodb://b"
Malformed == "not a uri"
MONGO_DB == "eldercare"

\* create_engine(uri) and MongoClient(uri) raise on a URI they cannot parse,
\* and connect only when a request is made
get_pg_engine(uri) == [exc |-> IF uri = Malformed THEN "ArgumentError" ELSE "", uri |-> uri]
get_mongo_client(uri) == [exc |-> IF uri = Malformed THEN "InvalidURI" ELSE "", uri |-> uri]

\* the requests of mongo_overview, in order
mongo_overview(uri, db_name) ==
    <<[backend |-> "mongo", op |-> "server_info", conn |-> uri, db |-> db_name],
      [backend |-> "mongo", op |-> "list_collection_names", conn |-> uri, db |-> db_name],
      [backend |-> "mongo", op |-> "dbstats", conn |-> uri, db |-> db_name]>>

AnswerKinds == {"connect_fails", "query_fails", "rows", "no_rows", "other_columns"}

\* the columns a result needs for the chart to be drawn, and a key column
GoodCols(chart) == {chart.map[k] : k \in DOMAIN chart.map} \cup {"_id"}

\* what the backend may answer to a query; nodocs is the frame of an answer without rows
Answers(kinds, chart, src, nodocs) ==
    {Failure(k) : k \in kinds \cap {"connect_fails", "query_fails"}}
    \cup {Rows(DataFrame(GoodCols(chart), 1, 1, src)) : k \in kinds \cap {"rows"}}
    \cup {Rows(DataFrame(nodocs, 0, 1, src)) : k \in kinds \cap {"no_rows"}}
    \cup {Rows(DataFrame({"_id"}, 1, 1, src)) : k \in kinds \cap {"other_columns"}}

NoPanel ==
    [sel |-> "", run |-> FALSE, called |-> FALSE, hit |-> FALSE, df |-> <<>>,
     shown |-> <<>>, exc |-> ""]

NoCall == [fn |-> "none"]

\* what a panel shows after its executor returned or raised
Shows(r, chart) ==
    IF r.exc # "" THEN [shown |-> <<"error">>, exc |-> r.exc]
    ELSE LET c == render_chart(r.df[1], chart)
         IN  IF c.exc # "" THEN [shown |-> <<"error">>, exc |-> c.exc]
             ELSE [shown |-> <<c.shown>>, exc |-> ""]

\* auto_run or st.button(..., key=key): the button counts only in the run its click started
pressed_any(side_, key) == side_.auto_run \/ side_.clicked # "none"
pressed(side_, key) == side_.auto_run \/ side_.clicked = key

\* where the script goes on after the Postgres try statement: `except Exception`
\* catches what the block raised and the next statement is the Mongo panel
after_pg_try_uncaught(exc) == IF exc # "" THEN "idle" ELSE "mongo"
after_pg_try(exc) == "mongo"

\* What the sidebar holds before its widgets are read.
NoSide(utcnow) ==
    [utcnow |-> utcnow, pg_uri |-> PgUriA, mongo_uri |-> MongoUriA,
     mongo_db |-> MONGO_DB, auto_run |-> FALSE, role |-> "all",
     clicked |-> "none", ctx |-> PARAMS_CTX(1)]

\* An interaction of the operator starts a run after some time: the page is
\* cleared and the module level code builds CONFIG from the clock.
Rerun(deltas) ==
    /\ pc = "idle"
    /\ runs < MaxRuns
    /\ \E d \in deltas :
          /\ now' = now + d
          /\ side' = NoSide(now + d)
          /\ cache_pg' = Live(cache_pg, now + d)
          /\ cache_mongo' = Live(cache_mongo, now + d)
    /\ runs' = runs + 1
    /\ pc' = "sidebar"
    /\ pgp' = NoPanel
    /\ mgp' = NoPanel
    /\ net' = <<>>
    /\ UNCHANGED unit

\* The sidebar reads its widgets.  A button is true only in the run its click started.
Sidebar(roles, autos, clicks, pids, pg_uris, mongo_uris) ==
    /\ pc = "sidebar"
    /\ pc' = "pg"
    /\ \E role \in roles, auto_run \in autos, clicked \in clicks,
          pid \in pids, pg_uri \in pg_uris, mongo_uri \in mongo_uris :
          side' = [utcnow |-> side.utcnow, pg_uri |-> pg_uri, mongo_uri |-> mongo_uri,
                   mongo_db |-> MONGO_DB, auto_run |-> auto_run, role |-> role,
                   clicked |-> clicked, ctx |-> PARAMS_CTX(pid)]
    /\ UNCHANGED <<now, runs, pgp, mgp, net, cache_pg, cache_mongo, unit>>

\* The Postgres part of the page, from its try to its except.
PgPanel(kinds) ==
    /\ pc = "pg"
    /\ UNCHANGED <<now, runs, side, mgp, cache_mongo, unit>>
    /\ LET eng == get_pg_engine(side.pg_uri)
           pg_q == filter_queries_by_role(PG_QUERIES, side.role)
           names == IF pg_q = <<>> THEN <<"(no queries for this role)">> ELSE Names(pg_q)
       IN  IF eng.exc # ""
           THEN /\ pgp' = [NoPanel EXCEPT !.shown = <<"error">>, !.exc = eng.exc]
                /\ UNCHANGED <<net, cache_pg>>
           ELSE \E sel \in Range(names) :
                IF sel \notin Range(Names(pg_q))
                THEN /\ pgp' = [NoPanel EXCEPT !.sel = sel, !.shown = <<"info">>]
                     /\ UNCHANGED <<net, cache_pg>>
                ELSE LET q == Lookup(pg_q, sel)
                         sql == qualify(q.sql)
                         run == pressed(side, "pg_run")
                         b == pg_params(q, side.ctx)
                     IN  IF ~run
                         THEN /\ pgp' = [NoPanel EXCEPT !.sel = sel, !.shown = <<"code">>]
                              /\ UNCHANGED <<net, cache_pg>>
                         ELSE IF b.exc # ""
                         THEN /\ pgp' = [NoPanel EXCEPT !.sel = sel, !.run = TRUE,
                                             !.shown = <<"code", "error">>, !.exc = b.exc]
                              /\ UNCHANGED <<net, cache_pg>>
                         ELSE \E answer \in Answers(kinds, q.chart, eng.uri, GoodCols(q.chart)) :
                              LET r == run_pg_query(cache_pg, now, eng.uri, sql, b.params, answer, sel)
                                  c == Shows(r, q.chart)
                              IN  /\ pgp' = [sel |-> sel, run |-> TRUE, called |-> TRUE,
                                             hit |-> r.hit, df |-> r.df,
                                             shown |-> <<"code">> \o c.shown, exc |-> c.exc]
                                  /\ net' = net \o r.sent
                                  /\ cache_pg' = r.cache
    /\ pc' = after_pg_try(pgp'.exc)

\* The Mongo part of the page, from its try to its except.
MongoPanel(ups, kinds) ==
    /\ pc = "mongo"
    /\ pc' = "idle"
    /\ UNCHANGED <<now, runs, side, pgp, cache_pg, unit>>
    /\ LET client == get_mongo_client(side.mongo_uri)
           overview == mongo_overview(client.uri, side.mongo_db)
       IN  IF client.exc # ""
           THEN /\ mgp' = [NoPanel EXCEPT !.shown = <<"error">>, !.exc = client.exc]
                /\ UNCHANGED <<net, cache_mongo>>
           ELSE \E up \in ups :
                IF ~up
                THEN /\ mgp' = [NoPanel EXCEPT !.shown = <<"error">>,
                                               !.exc = "ServerSelectionTimeoutError"]
                     /\ net' = net \o <<overview[1]>>
                     /\ UNCHANGED cache_mongo
                ELSE \E selm \in Range(MONGO_NAMES) :
                     LET q == MongoQuery(selm, side.utcnow)
                         runm == pressed(side, "mongo_run")
                         params == mongo_params(q, side.ctx)
                     IN  IF ~runm
                         THEN /\ mgp' = [NoPanel EXCEPT !.sel = selm,
                                             !.shown = <<"metrics", "write", "code">>]
                              /\ net' = net \o overview
                              /\ UNCHANGED cache_mongo
                         ELSE \E answer \in Answers(kinds, q.chart, client.uri, {}) :
                              LET r == run_mongo_aggregate(cache_mongo, now, client.uri,
                                           side.mongo_db, q.collection, q.aggregate,
                                           params, answer, selm)
                                  c == Shows(r, q.chart)
                              IN  /\ mgp' = [sel |-> selm, run |-> TRUE, called |-> TRUE,
                                             hit |-> r.hit, df |-> r.df,
                                             shown |-> <<"metrics", "write", "code">> \o c.shown,
                                             exc |-> c.exc]
                                  /\ net' = net \o overview \o r.sent
                                  /\ cache_mongo' = r.cache

Init ==
    /\ now = 0
    /\ runs = 0
    /\ pc = "idle"
    /\ side = NoSide(0)
    /\ pgp = NoPanel
    /\ mgp = NoPanel
    /\ net = <<>>
    /\ cache_pg = {}
    /\ cache_mongo = {}
    /\ unit = NoCall

(* Runs a full TTL apart, with every answer of the backends: each run finds *)
(* the caches without a live entry.                                         *)
RerunCold == Rerun({TTL})
SidebarAny ==
    Sidebar(Range(ROLES), BOOLEAN, {"none", "pg_run", "mongo_run"}, {1},
            {PgUriA, Malformed}, {MongoUriA, Malformed})
PgPanelAny == PgPanel(AnswerKinds)
MongoPanelAny == MongoPanel(BOOLEAN, AnswerKinds)

Next == RerunCold \/ SidebarAny \/ PgPanelAny \/ MongoPanelAny

Spec == Init /\ [][Next]_vars

(* Runs within and past the TTL against backends that answer, the operator  *)
(* pressing one run button per run and changing role, patient id and URIs.  *)
RerunWarm == Rerun({1, TTL})
SidebarButtons ==
    Sidebar(Range(ROLES), {FALSE}, {"pg_run", "mongo_run"}, {1, 7},
            {PgUriA, PgUriB}, {MongoUriA, MongoUriB})
PgPanelUp == PgPanel({"rows"})
MongoPanelUp == MongoPanel({TRUE}, {"rows"})

NextSession == RerunWarm \/ SidebarButtons \/ PgPanelUp \/ MongoPanelUp

SpecSession == Init /\ [][NextSession]_vars

-----------------------------------------------------------------------------
(* Direct calls of the functions of the module, on inputs from bounded sets. *)

\* the role filter on any catalog of up to MaxDefs definitions
TagOptions ==
    {[has |-> FALSE, tags |-> <<>>], [has |-> TRUE, tags |-> <<>>],
     [has |-> TRUE, tags |-> <<"patient">>], [has |-> TRUE, tags |-> <<"Patient">>],
     [has |-> TRUE, tags |-> <<"ALL">>], [has |-> TRUE, tags |-> <<"all", "admin">>],
     [has |-> TRUE, tags |-> <<"admin", "caregiver">>],
     [has |-> TRUE, tags |-> <<"caregiver", "PATIENT">>]}
UnitRoles == {"patient", "PATIENT", "Admin", "all", "ALL", "guest"}
UnitDef(i, opt) ==
    [name |-> ToString(i), keys |-> IF opt.has THEN {"tags"} ELSE {}, tags |-> opt.tags]
UnitCatalogs ==
    UNION {{[i \in 1..n |-> UnitDef(i, f[i])] : f \in [1..n -> TagOptions]} : n \in 0..MaxDefs}

UnitFilter ==
    /\ unit = NoCall
    /\ \E qdict \in UnitCatalogs, role \in UnitRoles :
          unit' = [fn |-> "filter_queries_by_role", qdict |-> qdict, role |-> role,
                   ret |-> filter_queries_by_role(qdict, role)]
    /\ UNCHANGED <<now, runs, pc, side, pgp, mgp, net, cache_pg, cache_mongo>>

\* binding of any catalog query under any parameter context, and the request sent
Injection == PyStr(<<Txt("1; DROP TABLE x;--")>>)
UnitContexts ==
    {[k \in keys |-> IF k = "patient_id" THEN v ELSE PARAMS_CTX(1)[k]] :
        keys \in SUBSET CtxKeys, v \in {PyInt(1), PyInt(7), Injection}}

UnitPgBind ==
    /\ unit = NoCall
    /\ \E i \in DOMAIN PG_QUERIES, ctx \in UnitContexts :
          LET q == PG_QUERIES[i]
              b == pg_params(q, ctx)
              r == run_pg_query({}, 0, PgUriA, qualify(q.sql), b.params,
                                Rows(DataFrame(GoodCols(q.chart), 1, 1, PgUriA)), q.name)
          IN  unit' = [fn |-> "pg_bind", q |-> q, ctx |-> ctx, exc |-> b.exc,
                       named |-> b.named, sent |-> IF b.exc = "" THEN r.sent ELSE <<>>]
    /\ UNCHANGED <<now, runs, pc, side, pgp, mgp, net, cache_pg, cache_mongo>>

\* run_mongo_aggregate on the pipelines of the catalog and on two one-stage pipelines
UnitPipelines ==
    {MongoQuery(MONGO_NAMES[i], 0).aggregate : i \in DOMAIN MONGO_NAMES}
    \cup {<<Stage("$match", <<E("patient_id", PyStr(<<Ph("patient_id")>>))>>)>>,
          <<Stage("$match", <<E("patient_id", PyStr(<<Ph("patient_id")>>)),
                              E("sensor_id", PyStr(<<Txt("dev-"), Ph("device_id")>>))>>)>>}
UnitMongoParams ==
    UNION {[keys -> {PyInt(1), PyInt(7), PyStr(<<Txt("abc")>>)}] :
              keys \in SUBSET {"patient_id", "device_id"}}

UnitMongoBind ==
    /\ unit = NoCall
    /\ \E stages \in UnitPipelines, params \in UnitMongoParams :
          LET r == run_mongo_aggregate({}, 0, MongoUriA, MONGO_DB, "sensor_readings", stages,
                                       params, Rows(DataFrame({"_id"}, 1, 1, MongoUriA)), "")
          IN  unit' = [fn |-> "run_mongo_aggregate", stages |-> stages, params |-> params,
                       exc |-> r.exc, sent |-> r.sent]
    /\ UNCHANGED <<now, runs, pc, side, pgp, mgp, net, cache_pg, cache_mongo>>

\* render_chart on any frame over two columns and any chart spec
ChartKinds == {"table", "line", "bar", "pie", "heatmap", "treemap", "scatter"}
UnitFrames ==
    {DataFrame(cols, nrows, 1, "") : cols \in SUBSET {"a", "b"}, nrows \in 0..1}
UnitSpecs ==
    UNION {{[keys |-> has \cup DOMAIN map, type |-> kind, map |-> map] :
               map \in UNION {[ks -> {"a", "c"}] : ks \in SUBSET Range(Needed(kind))},
               has \in {{}, {"type"}}} :
           kind \in ChartKinds}

UnitRender ==
    /\ unit = NoCall
    /\ \E df \in UnitFrames, spec \in UnitSpecs :
          unit' = [fn |-> "render_chart", df |-> df, spec |-> spec,
                   ret |-> render_chart(df, spec)]
    /\ UNCHANGED <<now, runs, pc, side, pgp, mgp, net, cache_pg, cache_mongo>>

NextUnit == UnitFilter \/ UnitPgBind \/ UnitMongoBind \/ UnitRender

SpecUnit == Init /\ [][NextUnit]_vars

-----------------------------------------------------------------------------
(* Direct calls of the two cached executors over time.  unit keeps the log  *)
(* of the calls: the key, the time, whether the body ran and the result.    *)

Log == IF unit.fn = "cached" THEN unit.log ELSE <<>>
Logged(fn, key, t, r) ==
    [fn |-> "cached",
     log |-> Append(Log, [fn |-> fn, key |-> key, t |-> t, hit |-> r.hit,
                          sent |-> Len(r.sent), exc |-> r.exc, df |-> r.df])]
Versions(cols, src) ==
    {Failure("query_fails"), Rows(DataFrame(cols, 1, 1, src)), Rows(DataFrame(cols, 1, 2, src))}

CallRunPg ==
    /\ Len(Log) < MaxCalls
    /\ \E d \in {1, TTL - 1}, pid \in {1, 7}, answer \in Versions({"_id"}, PgUriA) :
          LET q == PG_QUERIES[1]
              sql == qualify(q.sql)
              params == pg_params(q, PARAMS_CTX(pid)).params
              r == run_pg_query(cache_pg, now + d, PgUriA, sql, params, answer, q.name)
          IN  /\ now' = now + d
              /\ cache_pg' = r.cache
              /\ unit' = Logged("run_pg_query", [sql |-> sql, params |-> params], now + d, r)
    /\ UNCHANGED <<runs, pc, side, pgp, mgp, net, cache_mongo>>

CallRunMongo ==
    /\ Len(Log) < MaxCalls
    /\ \E d \in {1, TTL - 1}, i \in {4, 6}, answer \in Versions({"_id"}, MongoUriA) :
          LET q == MongoQuery(MONGO_NAMES[i], 0)
              r == run_mongo_aggregate(cache_mongo, now + d, MongoUriA, MONGO_DB,
                                       q.collection, q.aggregate, NoParams, answer, q.name)
          IN  /\ now' = now + d
              /\ cache_mongo' = r.cache
              /\ unit' = Logged("run_mongo_aggregate",
                                [db_name |-> MONGO_DB, coll |-> q.collection,
                                 stages |-> q.aggregate, params |-> NoParams], now + d, r)
    /\ UNCHANGED <<runs, pc, side, pgp, mgp, net, cache_pg>>

NextCache == CallRunPg \/ CallRunMongo

SpecCache == Init /\ [][NextCache]_vars

-----------------------------------------------------------------------------
(* Properties.                                                              *)

\* the visibility rule of the role filter, stated on the tag set
Visible(d, role) ==
    \/ "tags" \notin d.keys
    \/ d.tags = <<>>
    \/ \E i \in DOMAIN d.tags : lower(d.tags[i]) = "all"
    \/ \E i \in DOMAIN d.tags : lower(d.tags[i]) = lower(role)

(* C1: for every role and catalog the role filter returns exactly the       *)
(* definitions that are untagged, carry the wildcard tag or carry the role,  *)
(* tags and role compared without regard to case, each once and in catalog   *)
(* order; when no definition is visible the result is empty.                 *)
C1_RoleFilterExact ==
    unit.fn = "filter_queries_by_role" =>
        LET vis == {i \in DOMAIN unit.qdict : Visible(unit.qdict[i], unit.role)}
        IN  /\ {unit.ret[i].name : i \in DOMAIN unit.ret} = {unit.qdict[i].name : i \in vis}
            /\ Len(unit.ret) = Cardinality(vis)
            /\ \A i, j \in DOMAIN unit.ret :
                   i < j => \E a, b \in vis : /\ a < b
                                              /\ unit.qdict[a] = unit.ret[i]
                                              /\ unit.qdict[b] = unit.ret[j]
            /\ (vis = {} => unit.ret = <<>>)

\* the role is spelled in another case than the tag, and one definition is filtered out
C1_Witness ==
    /\ unit.fn = "filter_queries_by_role"
    /\ unit.role = "PATIENT"
    /\ Len(unit.qdict) = 2
    /\ unit.qdict[1].tags = <<"admin", "caregiver">>
    /\ unit.qdict[2].tags = <<"patient">>
    /\ Len(unit.ret) = 1

(* C2: in every run, in both panels, a query that was bound and executed is *)
(* one that the role filter shows to the selected role.                      *)
C2_ExecutedQueryVisibleToRole ==
    /\ pgp.called =>
           \E i \in DOMAIN PG_QUERIES :
               PG_QUERIES[i].name = pgp.sel /\ Visible(PG_QUERIES[i], side.role)
    /\ mgp.called =>
           \E i \in DOMAIN MONGO_QUERIES(side.utcnow) :
               /\ MONGO_QUERIES(side.utcnow)[i].name = mgp.sel
               /\ Visible(MONGO_QUERIES(side.utcnow)[i], side.role)

Declared(d) == IF "params" \in d.keys THEN Range(d.params) ELSE {}

(* C3: the statement text handed to execution is the template with its      *)
(* schema token qualified and every named placeholder intact, whatever the   *)
(* parameter values are, and each declared parameter travels as a bind       *)
(* variable holding its value from the context.                              *)
C3_ValuesNeverInStatementText ==
    (unit.fn = "pg_bind" /\ unit.exc = "") =>
        /\ Len(unit.sent) = 2
        /\ LET req == unit.sent[2]
               tpl == unit.q.sql
           IN  /\ req.op = "read_sql"
               /\ Len(req.stmt) = Len(tpl)
               /\ \A i \in DOMAIN tpl :
                      IF tpl[i].k = "schema"
                      THEN req.stmt[i] = [k |-> "qualified", v |-> PG_SCHEMA]
                      ELSE req.stmt[i] = tpl[i]
               /\ DOMAIN req.binds = Declared(unit.q)
               /\ \A k \in Declared(unit.q) : req.binds[k] = unit.ctx[k]

\* a statement-breaking value is bound to a query that declares the parameter
C3_Witness ==
    /\ unit.fn = "pg_bind"
    /\ unit.exc = ""
    /\ "patient_id" \in Declared(unit.q)
    /\ unit.ctx["patient_id"] = Injection
    /\ Len(unit.sent) = 2
    /\ unit.sent[2].binds["patient_id"] = Injection

(* C4: binding an integer parameter into a stage whose field value is the   *)
(* placeholder token yields that integer at that position of the pipeline    *)
(* handed to the backend.                                                    *)
C4_IntegerStaysInteger ==
    unit.fn = "run_mongo_aggregate" =>
        \A p \in Leaves(unit.stages) :
            LET leaf == unit.stages[p[1]].body[p[2]]
            IN  (/\ leaf.val = PyStr(<<Ph("patient_id")>>)
                 /\ "patient_id" \in DOMAIN unit.params
                 /\ unit.params["patient_id"].t = "int")
                => /\ unit.exc = ""
                   /\ Len(unit.sent) = 1
                   /\ unit.sent[1].stages[p[1]].body[p[2]].val = unit.params["patient_id"]

(* C5: a pipeline that still holds a placeholder token is never handed to   *)
(* the backend.                                                              *)
C5_NoPlaceholderReachesBackend ==
    \A i \in DOMAIN net :
        net[i].op = "aggregate" => ~HasPlaceholder(net[i].stages)

PipelinePlaceholders(stages) ==
    UNION {{stages[p[1]].body[p[2]].val.s[i].v :
               i \in {j \in DOMAIN stages[p[1]].body[p[2]].val.s :
                          stages[p[1]].body[p[2]].val.s[j].a = "ph"}} :
           p \in Leaves(stages)}

(* C7: every placeholder token of a template of the catalog is a declared   *)
(* parameter of its definition.                                              *)
C7_PlaceholdersDeclared ==
    /\ \A i \in DOMAIN PG_QUERIES :
           Placeholders(PG_QUERIES[i].sql) \subseteq Declared(PG_QUERIES[i])
    /\ \A i \in DOMAIN MONGO_NAMES :
           LET d == MongoQuery(MONGO_NAMES[i], side.utcnow)
           IN  PipelinePlaceholders(d.aggregate) \subseteq Declared(d)

Max(set) == CHOOSE x \in set : \A y \in set : y <= x

(* C8: a call of a cached executor whose key was last computed less than    *)
(* TTL seconds ago returns that result without running the body; any other   *)
(* call runs the body and asks the backend.                                  *)
C8_CachedWithinTTL ==
    \A j \in DOMAIN Log :
        LET computed == {i \in 1..(j - 1) : /\ Log[i].fn = Log[j].fn
                                            /\ Log[i].key = Log[j].key
                                            /\ ~Log[i].hit
                                            /\ Log[i].exc = ""}
        IN  IF computed # {} /\ Log[j].t - Log[Max(computed)].t < TTL
            THEN /\ Log[j].hit
                 /\ Log[j].sent = 0
                 /\ Log[j].exc = ""
                 /\ Log[j].df = Log[Max(computed)].df
            ELSE /\ ~Log[j].hit
                 /\ Log[j].sent > 0

\* a computation, a hit inside its window, and a new computation once it expired
C8_Witness ==
    /\ Len(Log) = 3
    /\ Log[1].key = Log[2].key /\ Log[2].key = Log[3].key
    /\ Log[1].fn = Log[3].fn /\ Log[1].fn = Log[2].fn
    /\ ~Log[1].hit /\ Log[1].exc = ""
    /\ Log[2].hit
    /\ Log[3].t - Log[1].t >= TTL
    /\ ~Log[3].hit /\ Log[3].sent > 0 /\ Log[3].exc = ""

(* C9: two executions of the same named query with the same parameter       *)
(* bindings within the TTL window share one cache entry.                     *)
C9_SameQuerySameEntry ==
    /\ \A e1, e2 \in cache_pg :
           (e1.who = e2.who /\ e1.key.params = e2.key.params) => e1 = e2
    /\ \A e1, e2 \in cache_mongo :
           (e1.who = e2.who /\ e1.key.params = e2.key.params) => e1 = e2

(* C10: for every chart kind and chart spec, an empty result shows the      *)
(* no-data indicator, raises nothing and reads no key of the spec.           *)
C10_EmptyResultShowsNoData ==
    (unit.fn = "render_chart" /\ (unit.df.nrows = 0 \/ unit.df.cols = {})) =>
        /\ unit.ret.shown = "info"
        /\ unit.ret.exc = ""
        /\ unit.ret.reads = {}

\* an empty frame rendered with a heatmap spec that maps no field
C10_Witness ==
    /\ unit.fn = "render_chart"
    /\ unit.df.nrows = 0
    /\ unit.spec.type = "heatmap"
    /\ DOMAIN unit.spec.map = {}
    /\ unit.ret.shown = "info"

\* the chart of the selected query maps a field to a column the frame lacks
AbsentColumn(chart, df) == \E k \in DOMAIN chart.map : chart.map[k] \notin df.cols

(* C11: when the chart of the executed query references a column absent     *)
(* from a non-empty result, the panel reports an error in place of the      *)
(* chart and still shows the result as a table.                             *)
C11_AbsentColumnFallsBackToTable ==
    /\ (/\ pgp.called
        /\ pgp.df # <<>>
        /\ ~empty(pgp.df[1])
        /\ AbsentColumn(Lookup(PG_QUERIES, pgp.sel).chart, pgp.df[1]))
       => /\ "error" \in Range(pgp.shown)
          /\ "plotly" \notin Range(pgp.shown)
          /\ "dataframe" \in Range(pgp.shown)
    /\ (/\ mgp.called
        /\ mgp.df # <<>>
        /\ ~empty(mgp.df[1])
        /\ AbsentColumn(MongoQuery(mgp.sel, side.utcnow).chart, mgp.df[1]))
       => /\ "error" \in Range(mgp.shown)
          /\ "plotly" \notin Range(mgp.shown)
          /\ "dataframe" \in Range(mgp.shown)

\* a run of the page has ended
RunEnded == pc = "idle" /\ runs > 0

(* C12: at the end of every run, a failure in one panel has left the other  *)
(* panel shown, and the other panel has executed its selected query when    *)
(* its run was asked for and it met no failure of its own.                  *)
C12_PanelErrorsAreLocal ==
    RunEnded =>
        /\ pgp.exc # "" =>
               /\ mgp.shown # <<>>
               /\ (pressed(side, "mongo_run") /\ mgp.exc = "") => mgp.called
        /\ mgp.exc # "" =>
               /\ pgp.shown # <<>>
               /\ (/\ pressed(side, "pg_run")
                   /\ filter_queries_by_role(PG_QUERIES, side.role) # <<>>
                   /\ pgp.exc = "") => pgp.called

\* the Postgres connection failed and the Mongo panel drew its chart in the same run
C12_Witness ==
    /\ RunEnded
    /\ pgp.called
    /\ pgp.exc = "OperationalError"
    /\ mgp.called
    /\ mgp.exc = ""
    /\ "plotly" \in Range(mgp.shown)

\* the requests of this run that went to a backend
SentTo(backend) == {i \in DOMAIN net : net[i].backend = backend}

\* binding of the query selected in the Postgres panel raised
PgBindingFailed ==
    /\ pgp.run
    /\ pg_params(Lookup(PG_QUERIES, pgp.sel), side.ctx).exc # ""

\* binding of the pipeline selected in the Mongo panel raised, or left a placeholder unresolved
MongoBindingFailed ==
    /\ mgp.run
    /\ LET q == MongoQuery(mgp.sel, side.utcnow)
           b == bind_stages(q.aggregate, mongo_params(q, side.ctx))
       IN  b.exc # "" \/ HasPlaceholder(b.stages)

(* C13: in each panel, when binding of the selected query has failed, no    *)
(* request of this run has been sent to that panel's backend.               *)
C13_BindingFailsBeforeAnyRequest ==
    /\ PgBindingFailed => SentTo("pg") = {}
    /\ MongoBindingFailed => SentTo("mongo") = {}

(* C14: a frame a panel received from its cached executor was read from the *)
(* database of the URI the sidebar holds in that run.                       *)
C14_ResultFromThisConnection ==
    /\ (pgp.called /\ pgp.df # <<>>) => pgp.df[1].src = side.pg_uri
    /\ (mgp.called /\ mgp.df # <<>>) => mgp.df[1].src = side.mongo_uri

\* the pipelines of this run that went to the Mongo backend
Aggregates == {i \in DOMAIN net : net[i].op = "aggregate"}

(* C15: in every run a panel binds and executes its query only when         *)
(* auto-run is on or its own button was pressed in that run, and the        *)
(* Postgres panel executes nothing when the role sees no query.             *)
C15_RunsOnlyWhenAsked ==
    /\ (pgp.run \/ pgp.called \/ SentTo("pg") # {})
           => (side.auto_run \/ side.clicked = "pg_run")
    /\ (mgp.run \/ mgp.called \/ Aggregates # {})
           => (side.auto_run \/ side.clicked = "mongo_run")
    /\ filter_queries_by_role(PG_QUERIES, side.role) = <<>>
           => (~pgp.run /\ ~pgp.called /\ SentTo("pg") = {})

\* the Postgres button was pressed with auto-run off: Postgres executed, Mongo only showed its pipeline
C15_Witness ==
    /\ RunEnded
    /\ ~side.auto_run
    /\ side.clicked = "pg_run"
    /\ pgp.called
    /\ SentTo("pg") # {}
    /\ mgp.sel # ""
    /\ ~mgp.called
    /\ Aggregates = {}

====
